---- MODULE Spec2Model ----
(***************************************************************************)
(* Model of the AI-driven test-case script (scripts/test-cases.mjs, the    *)
(* generation that carries the Refill Loop): page load, context            *)
(* extraction, generateTestCases with normalizeAndFilterTCs, the           *)
(* execution loop with record(), the fatal error handler and the report.   *)
(*                                                                         *)
(* Strings the code inspects with includes() are sequences of tokens; a    *)
(* token stands for a substring.  A title is a sequence of characters.     *)
(***************************************************************************)
EXTENDS Integers, Sequences, FiniteSets, TLC

(* ------------------------------ bounds -------------------------------- *)

\* largest target count (process.argv[3]) a run is started with
MaxTarget == 2

\* largest number of candidates in one response of the generation service
MaxBatch == 2

\* largest number of pages open beside the page of the run
MaxTabs == 1

\* largest number of calls of extractPageContext on an unchanged page
MaxCalls == 2

\* largest number of changes of the page's document
MaxMutations == 1
\* number of words of the error messages given to the classification
MaxWords == 3
\* number of tests selected for one run of the test runner
MaxTests == 2
\* number of calls of startTest
MaxStarts == 3

(* ------------------------- program constants -------------------------- *)

maxRetries == 10

batchSize == 30

(* ------------------------- nullable values ---------------------------- *)

Null == [null |-> TRUE, v |-> <<>>]

Some(x) == [null |-> FALSE, v |-> x]

(* --------------------------- sequences -------------------------------- *)

Includes(s, tok) == \E i \in 1..Len(s) : s[i] = tok

Range(s) == {s[i] : i \in 1..Len(s)}

SeqsUpTo(S, n) == UNION {[1..k -> S] : k \in 0..n}

(* ------------------------------ titles -------------------------------- *)

\* a title is a string ("str"), absent ("undef") or a number ("num")
Str(chars) == [k |-> "str", s |-> chars]

Undef == [k |-> "undef", s |-> <<>>]

Num == [k |-> "num", s |-> <<>>]

\* JavaScript truthiness of a title value
Truthy(t) == \/ t.k = "num"
             \/ t.k = "str" /\ t.s # <<>>

\* new Set(t.replace(/\s+/g, '').split(''))
CharSet(t) == {c \in Range(t.s) : c # " "}

\* isSimilar throws a TypeError when a truthy title has no replace()
isSimilarThrows(t1, t2) == Truthy(t1) /\ Truthy(t2) /\ (t1.k = "num" \/ t2.k = "num")

\* isSimilar with the threshold written as 0.8
isSimilar_Threshold08(t1, t2) ==
    IF ~Truthy(t1) \/ ~Truthy(t2) THEN FALSE
    ELSE LET s1 == CharSet(t1)
             s2 == CharSet(t2)
             inter == Cardinality(s1 \cap s2)
             union == Cardinality(s1 \cup s2)
         IN  union # 0 /\ 10 * inter > 8 * union

\* (intersection.size / union.size) > 0.6 ; 0/0 is NaN and NaN > 0.6 is false
isSimilar(t1, t2) ==
    IF ~Truthy(t1) \/ ~Truthy(t2) THEN FALSE
    ELSE LET s1 == CharSet(t1)
             s2 == CharSet(t2)
             inter == Cardinality(s1 \cap s2)
             union == Cardinality(s1 \cup s2)
         IN  union # 0 /\ 10 * inter > 6 * union

(* --------------------------- case designs ----------------------------- *)

Step(a, sel, val) == [action |-> a, selector |-> sel, value |-> val]

\* a candidate of the parsed response: null, or an object with a title and
\* the id every candidate of a response arrives with: the service numbers
\* each response from TC-001
SuppliedId == <<"TC-", 0, 0, 1>>

\* a steps value that is an array ("array"), absent ("missing") or some
\* other value ("other")
Design(t, sk, st) ==
    [nul |-> FALSE, id |-> SuppliedId, title |-> t, sk |-> sk, steps |-> st]

NullCandidate == [nul |-> TRUE, id |-> <<>>, title |-> Undef, sk |-> "missing", steps |-> <<>>]

RECURSIVE Signature(_)
\* tc.steps.map(s => `${s.action}:${s.selector || ''}`).join('|')
Signature(steps) ==
    IF steps = <<>> THEN <<>>
    ELSE LET head == <<steps[1].action, ":">> \o steps[1].selector
         IN  IF Len(steps) = 1 THEN head
             ELSE head \o <<"|">> \o Signature(Tail(steps))

Actions(steps) == [i \in 1..Len(steps) |-> steps[i].action]

RECURSIVE Pick(_, _, _)
\* the elements of s whose index is in keep, from index i on, in order
Pick(s, keep, i) ==
    IF i > Len(s) THEN <<>>
    ELSE (IF i \in keep THEN <<s[i]>> ELSE <<>>) \o Pick(s, keep, i + 1)

\* a cleaning that removes every wait step
cleanSteps_DropsEveryWait(steps) ==
    Pick(steps, {i \in 1..Len(steps) : steps[i].action # "wait"}, 1)

\* steps.filter((step, idx) => step.action === 'wait' ? idx > 0 : true)
\* (idx is zero-based in the code, one-based here)
cleanSteps(steps) ==
    Pick(steps, {i \in 1..Len(steps) : steps[i].action = "wait" => i > 1}, 1)

(* ----------------------------- validator ------------------------------ *)

badSelectors == {":contains", ":has-text"}

NeedsSelector == {"click", "type", "check", "clickNewTab"}

\* existingTitles.some(existTitle => isSimilar(existTitle, title)):
\* index of the first accepted title on which some() stops (similar, or
\* isSimilar throws), 0 when it runs to the end
FirstStop(existingTitles, title) ==
    LET stops == {i \in 1..Len(existingTitles) :
                     \/ isSimilarThrows(existingTitles[i], title)
                     \/ isSimilar(existingTitles[i], title)}
    IN  IF stops = {} THEN 0
        ELSE CHOOSE i \in stops : \A j \in stops : i <= j

\* how some() ends when it stops at index i (0: it ran to the end)
TitleCheckAt(existingTitles, title, i) ==
    IF i = 0 THEN "new"
    ELSE IF isSimilarThrows(existingTitles[i], title) THEN "throw"
    ELSE "dup"

\* "throw", "dup" or "new": how the title check of the loop body ends
TitleCheck(existingTitles, title) ==
    TitleCheckAt(existingTitles, title, FirstStop(existingTitles, title))

\* the rules without "click needs a check"
RejectedByRules_NoClickRule(tc) ==
    LET actions == Actions(tc.steps)
    IN  \/ Len(actions) = 1 /\ actions[1] = "check"
        \/ \E i \in 1..Len(tc.steps) :
              tc.steps[i].action \in NeedsSelector /\ tc.steps[i].selector = <<>>
        \/ \E i \in 1..Len(tc.steps) :
              tc.steps[i].selector # <<>> /\
              \E bad \in badSelectors : Includes(tc.steps[i].selector, bad)

\* the structural rules without rule 4: a step that needs a selector may
\* lack it
RejectedByRules_NoSelectorRule(tc) ==
    LET actions == Actions(tc.steps)
        hasClick == Includes(actions, "click") \/ Includes(actions, "clickNewTab")
        hasValidation == Includes(actions, "check")
    IN  \/ Len(actions) = 1 /\ actions[1] = "check"
        \/ hasClick /\ ~hasValidation
        \/ \E i \in 1..Len(tc.steps) :
              tc.steps[i].selector # <<>> /\
              \E bad \in badSelectors : Includes(tc.steps[i].selector, bad)

\* the structural rules with a rule 4 that only looks at type steps
RejectedByRules_SelectorRuleTypeOnly(tc) ==
    LET actions == Actions(tc.steps)
        hasClick == Includes(actions, "click") \/ Includes(actions, "clickNewTab")
        hasValidation == Includes(actions, "check")
    IN  \/ Len(actions) = 1 /\ actions[1] = "check"
        \/ hasClick /\ ~hasValidation
        \/ \E i \in 1..Len(tc.steps) :
              tc.steps[i].action = "type" /\ tc.steps[i].selector = <<>>
        \/ \E i \in 1..Len(tc.steps) :
              tc.steps[i].selector # <<>> /\
              \E bad \in badSelectors : Includes(tc.steps[i].selector, bad)

\* the structural rules 2-5 of the loop body
RejectedByRules(tc) ==
    LET actions == Actions(tc.steps)
        hasClick == Includes(actions, "click") \/ Includes(actions, "clickNewTab")
        hasValidation == Includes(actions, "check")
    IN  \/ Len(actions) = 1 /\ actions[1] = "check"
        \/ hasClick /\ ~hasValidation
        \/ \E i \in 1..Len(tc.steps) :
              tc.steps[i].action \in NeedsSelector /\ tc.steps[i].selector = <<>>
        \/ \E i \in 1..Len(tc.steps) :
              tc.steps[i].selector # <<>> /\
              \E bad \in badSelectors : Includes(tc.steps[i].selector, bad)

\* the loop body without the signature check
Verdict_NoSignatureCheck(tc, existingTitles, signatureSet) ==
    IF tc.nul THEN "throw"
    ELSE IF tc.sk # "array" THEN "skip"
    ELSE LET t == TitleCheck(existingTitles, tc.title)
         IN  IF t = "throw" THEN "throw"
             ELSE IF t = "dup" THEN "skip"
             ELSE IF RejectedByRules(tc) THEN "skip"
             ELSE "accept"

\* one candidate of the for-loop: "throw", "skip" or "accept"
Verdict(tc, existingTitles, signatureSet) ==
    IF tc.nul THEN "throw"
    ELSE IF tc.sk # "array" THEN "skip"
    ELSE IF Signature(tc.steps) \in signatureSet THEN "skip"
    ELSE LET t == TitleCheck(existingTitles, tc.title)
         IN  IF t = "throw" THEN "throw"
             ELSE IF t = "dup" THEN "skip"
             ELSE IF RejectedByRules(tc) THEN "skip"
             ELSE "accept"

RECURSIVE FilterFrom(_, _, _, _, _)
\* the for-loop from candidate i on; a throw leaves the pushes made so far
\* in existingTitles and signatureSet and loses validTCs
FilterFrom(aiTCs, i, validTCs, existingTitles, signatureSet) ==
    IF i > Len(aiTCs)
    THEN [threw |-> FALSE, valid |-> validTCs,
          titles |-> existingTitles, sigs |-> signatureSet]
    ELSE LET tc == aiTCs[i]
             v == Verdict(tc, existingTitles, signatureSet)
         IN  IF v = "throw"
             THEN [threw |-> TRUE, valid |-> <<>>,
                   titles |-> existingTitles, sigs |-> signatureSet]
             ELSE IF v = "skip"
             THEN FilterFrom(aiTCs, i + 1, validTCs, existingTitles, signatureSet)
             ELSE FilterFrom(aiTCs, i + 1, Append(validTCs, tc),
                             Append(existingTitles, tc.title),
                             signatureSet \cup {Signature(tc.steps)})

\* the call's result together with the two collections it mutates in place
normalizeAndFilterTCs(aiTCs, existingTitles, signatureSet) ==
    FilterFrom(aiTCs, 1, <<>>, existingTitles, signatureSet)

(* ------------------- what the outside world can do -------------------- *)

T_abc == Str(<<"a", "b", "c">>)

T_abd == Str(<<"a", "b", "d">>)

T_ab_cd == Str(<<"a", "b", " ", "c", "d">>)

T_abcde == Str(<<"a", "b", "c", "d", "e">>)

T_blank == Str(<<" ">>)

T_e == Str(<<"e">>)

S_checkClickB == <<Step("check", <<"#a">>, <<>>), Step("click", <<"#b">>, <<>>)>>

S_checkClickC == <<Step("check", <<"#a">>, <<>>), Step("clickNewTab", <<"#c">>, <<>>)>>

S_waitCheckUrl == <<Step("wait", <<>>, <<>>), Step("check", <<"#a">>, <<>>),
                    Step("wait", <<>>, <<>>), Step("click", <<"#d">>, <<>>),
                    Step("checkUrl", <<>>, <<"/main">>)>>

S_typeOnly == <<Step("type", <<"//", "input">>, <<"x">>)>>

\* the designs a response of the generation service is made of
Designs ==
    { Design(T_abc, "array", S_checkClickB),
      Design(T_abd, "array", S_checkClickC),
      Design(T_ab_cd, "array", S_waitCheckUrl),
      Design(T_abcde, "array", S_checkClickB),
      Design(Undef, "array", S_typeOnly),
      Design(T_blank, "array", <<>>),
      Design(T_e, "array", <<Step("click", <<"#b">>, <<>>)>>),
      Design(T_e, "array", <<Step("clickNewTab", <<"#b">>, <<>>),
                             Step("checkUrl", <<>>, <<"/main">>)>>),
      Design(T_e, "array", <<Step("check", <<"#a">>, <<>>)>>),
      Design(T_e, "array", <<Step("check", <<"#a">>, <<>>), Step("click", <<>>, <<>>)>>),
      Design(T_e, "array", <<Step("check", <<"#a">>, <<>>),
                             Step("type", <<"a", ":contains", "(x)">>, <<"x">>)>>),
      Design(T_e, "missing", <<>>),
      NullCandidate }

Batches == SeqsUpTo(Designs, MaxBatch)

\* a generation service that only ever returns the same two designs
ScarceDesigns ==
    { Design(T_abc, "array", S_checkClickB),
      Design(T_abd, "array", S_checkClickC) }

ScarceBatches == SeqsUpTo(ScarceDesigns, MaxBatch)

\* a generation service whose designs click links and then check the URL
TabDesigns ==
    { Design(T_abc, "array", S_checkClickB),
      Design(T_abd, "array", S_checkClickC),
      Design(T_e, "array", S_waitCheckUrl) }

TabBatches == SeqsUpTo(TabDesigns, MaxBatch)

\* messages of errors thrown by the browser driver before generation
FatalMessages ==
    { <<"page.goto:", "net::", "ERR_NAME_NOT_RESOLVED", "at", "url">>,
      <<"page.goto:", "net::", "ERR_CONNECTION_REFUSED", "at", "url">>,
      <<"ERR_CONNECTION_REFUSED", "then", "ERR_NAME_NOT_RESOLVED">>,
      <<"Target", "closed">>,
      <<>> }

\* messages of errors thrown by the waits between and before cases
PageMessages ==
    { <<"page.waitForTimeout:", "Target", "closed">>,
      <<"net::", "ERR_CONNECTION_REFUSED">> }

\* messages of errors thrown by the overlay script
OverlayMessages == { <<"page.evaluate:", "Target", "closed">> }

\* messages of errors thrown by a step's browser action
StepMessages == { <<"locator.click:", "Timeout", "5000ms", "exceeded">> }

\* messages of errors thrown by a wait step
WaitMessages == { <<"page.waitForTimeout:", "Target", "closed">> }

\* message of the error thrown when the opened tab does not finish loading
LoadMessages == { <<"page.waitForLoadState:", "Timeout", "30000ms", "exceeded">> }

\* words of error messages: the ones the classification looks for, as they are
\* spelled in messages, and one it does not look for
ErrorWords ==
    {"locator.click:", "Selector", "expected", "visible", "Timeout", "navigation", "exceeded"}

\* e.message of the errors the catch block of runPlaybookAction may receive
ErrorMessages == SeqsUpTo(ErrorWords, MaxWords) \cup StepMessages \cup LoadMessages

\* TARGET_URL, a path of the same site, and a page of another site
TargetUrl == <<"https://target.example">>

MainUrl == <<"https://target.example", "/main">>

OtherUrl == <<"https://other.example", "/login">>

BlankUrl == <<"about:blank">>

\* the origin of a URL
Origin(url) == url[1]

\* what the page does on a click: writes a cookie and storage of its
\* origin, navigates in place, opens a link in a new tab
ClickEffects ==
    { [write |-> FALSE, nav |-> Null, tab |-> Null],
      [write |-> TRUE, nav |-> Null, tab |-> Null],
      [write |-> FALSE, nav |-> Some(MainUrl), tab |-> Null],
      [write |-> TRUE, nav |-> Some(OtherUrl), tab |-> Null],
      [write |-> FALSE, nav |-> Null, tab |-> Some(MainUrl)],
      [write |-> FALSE, nav |-> Null, tab |-> Some(OtherUrl)] }

\* the URLs a link clicked by clickNewTab opens
TabUrls == {MainUrl, OtherUrl}

(* -------------------------- extractPageContext ------------------------ *)

\* depth beyond which simplifyNode returns ''
maxDepth == 10

\* length from which a text is cut, and the length it is cut to
maxText == 50

\* length above which a class value is cut to its first three names
maxClass == 30

TextNode(chars) ==
    [type |-> "text", tagName |-> "", attributes |-> <<>>, visible |-> TRUE,
     text |-> chars, children |-> <<>>]

CommentNode ==
    [type |-> "comment", tagName |-> "", attributes |-> <<>>, visible |-> TRUE,
     text |-> <<>>, children |-> <<>>]

\* an element; `visible` is what node.checkVisibility() returns
Element(tag, attrs, vis, kids) ==
    [type |-> "element", tagName |-> tag, attributes |-> attrs, visible |-> vis,
     text |-> <<>>, children |-> kids]

\* an attribute; its value is a sequence of words separated by one space
Attr(name, words) == [name |-> name, value |-> words]

ignoredTags == {"script", "style", "svg", "path", "noscript", "meta", "link", "iframe"}

allowList == {"id", "class", "name", "type", "placeholder", "aria-label", "role", "href",
              "title", "data-testid", "data-cy", "alt"}

interactiveTags == {"a", "button", "input", "textarea", "select", "label"}

\* number of characters of the words used in attribute values
Width(word) ==
    CASE word = "btn" -> 3
      [] word = "btn-primary" -> 11
      [] word = "btn-extra-large" -> 15
      [] word = "rounded" -> 7
      [] word = "true" -> 4
      [] OTHER -> 1

RECURSIVE Length(_)
\* val.length of words joined by single spaces
Length(words) ==
    IF words = <<>> THEN 0
    ELSE IF Len(words) = 1 THEN Width(words[1])
    ELSE Width(words[1]) + 1 + Length(Tail(words))

\* text.trim() on a sequence of characters
Trim(chars) ==
    LET solid == {i \in 1..Len(chars) : chars[i] # " "}
    IN  IF solid = {} THEN <<>>
        ELSE LET first == CHOOSE i \in solid : \A j \in solid : i <= j
                 last == CHOOSE i \in solid : \A j \in solid : j <= i
             IN  SubSeq(chars, first, last)

\* the text node branch of simplifyNode
SimplifyText(chars) ==
    LET text == Trim(chars)
    IN  IF Len(text) > 0 /\ Len(text) < maxText THEN text
        ELSE IF Len(text) >= maxText THEN SubSeq(text, 1, maxText) \o <<"...">>
        ELSE <<>>

\* the value written for an attribute
AttrValue(attr) ==
    IF attr.name = "class" /\ Length(attr.value) > maxClass
    THEN SubSeq(attr.value, 1, IF Len(attr.value) < 3 THEN Len(attr.value) ELSE 3)
    ELSE attr.value

RECURSIVE AttrString(_, _)
\* attrs after the loop over node.attributes from index i on
AttrString(attributes, i) ==
    IF i > Len(attributes) THEN <<>>
    ELSE (IF attributes[i].name \in allowList
          THEN <<" ", attributes[i].name, "=\"">> \o AttrValue(attributes[i]) \o <<"\"">>
          ELSE <<>>) \o AttrString(attributes, i + 1)

\* node.hasAttribute('hidden') || node.getAttribute('aria-hidden') === 'true'
HiddenByAttribute(node) ==
    \E i \in 1..Len(node.attributes) :
        \/ node.attributes[i].name = "hidden"
        \/ node.attributes[i].name = "aria-hidden" /\ node.attributes[i].value = <<"true">>

RECURSIVE simplifyNode(_, _)
RECURSIVE ChildrenHTML(_, _, _)
\* childrenHTML after the loop over node.childNodes from index i on
ChildrenHTML(children, i, depth) ==
    IF i > Len(children) THEN <<>>
    ELSE simplifyNode(children[i], depth + 1) \o ChildrenHTML(children, i + 1, depth)

simplifyNode(node, depth) ==
    IF depth > maxDepth THEN <<>>
    ELSE IF node.type = "text" THEN SimplifyText(node.text)
    ELSE IF node.type # "element" THEN <<>>
    ELSE IF node.tagName \in ignoredTags THEN <<>>
    ELSE IF ~node.visible THEN <<>>
    ELSE IF HiddenByAttribute(node) THEN <<>>
    ELSE LET attrs == AttrString(node.attributes, 1)
             hasImportantAttr == \E i \in 1..Len(node.attributes) :
                                    node.attributes[i].name \in allowList
             childrenHTML == ChildrenHTML(node.children, 1, depth)
             isInteractive == node.tagName \in interactiveTags
         IN  IF ~isInteractive /\ ~hasImportantAttr /\ childrenHTML = <<>> THEN <<>>
             ELSE <<"<", node.tagName>> \o attrs \o <<">">> \o childrenHTML
                  \o <<"</", node.tagName, ">">>

\* extractPageContext(page): simplifyNode(document.body, 0)
extractPageContext(body) == simplifyNode(body, 0)

\* an extraction script that hides the body once it has read it
AfterExtract_HidesBody(body) == [body EXCEPT !.visible = FALSE]

\* the document after page.evaluate ran the extraction script: the script
\* only reads nodes
AfterExtract(body) == body

\* the nodes the documents of the model are made of
Leaves ==
    { TextNode(<<" ", "h", "i", " ">>),
      TextNode(<<" ">>),
      TextNode([i \in 1..(maxText - 1) |-> "x"]),
      TextNode([i \in 1..maxText |-> "x"]),
      CommentNode,
      Element("script", <<>>, TRUE, <<TextNode(<<"v", "a", "r">>)>>),
      Element("div", <<>>, TRUE, <<>>),
      Element("button", <<>>, TRUE, <<>>),
      Element("div", <<Attr("class", <<"btn-extra-large", "btn-primary", "rounded", "btn">>)>>,
              TRUE, <<>>),
      Element("div", <<Attr("id", <<"x">>)>>, FALSE, <<>>),
      Element("div", <<Attr("id", <<"x">>), Attr("aria-hidden", <<"true">>)>>, TRUE, <<>>),
      Element("div", <<Attr("style", <<"x">>)>>, TRUE, <<TextNode(<<"h", "i">>)>>) }

RECURSIVE Nest(_)
\* n + 1 nested elements around a text
Nest(n) ==
    Element("div", <<Attr("id", <<"x">>)>>, TRUE,
            IF n = 0 THEN <<TextNode(<<"h", "i">>)>> ELSE <<Nest(n - 1)>>)

Body(kids) == Element("body", <<>>, TRUE, kids)

\* document.body of the pages of the model
Documents == {Body(kids) : kids \in SeqsUpTo(Leaves, 2)} \cup {Body(<<Nest(maxDepth + 1)>>)}

(* ------------------------------- state -------------------------------- *)

VARIABLES
    TC_COUNT,       \* target count of the run
    pc,             \* position of the script
    allTestCases,   \* generateTestCases: accepted cases
    allTitles,      \* generateTestCases: accepted-title list
    signatureSet,   \* generateTestCases: signatures
    retries,        \* generateTestCases: budget used
    requests,       \* generateTestCases: fetch() calls issued so far
    lastAttempt,    \* generateTestCases: how the last iteration ended
    prompt,         \* generateTestCases: the prompt of the last request
    rejected,       \* some candidate of a parsed response was not accepted
    dynamicTCS,     \* the list generateTestCases returned
    rows, pass, fail, na,   \* record()
    fatalError,
    cur,            \* index of the case of the for-loop
    stepIdx,        \* index of the next step of cleanedSteps
    tc,             \* result and log of the case being run
    executed,       \* the steps handed to runPlaybookAction for the case being run
    pageUrl,        \* page.url()
    pages,          \* URLs of the other pages of context.pages()
    cookies,        \* the context holds cookies written during a case
    storage,        \* the target origin's storage holds entries written during a case
    reloaded,       \* the isolation block of the current case reached the end of its goto
    tabsBefore,     \* number of other pages open when the current case began
    report,         \* reports/tc-report.json
    thrown,         \* where the outer catch block was entered, and the message caught
    document,       \* document.body of the page
    contexts,       \* what the calls of extractPageContext returned since the page last changed
    mutations,      \* number of times the page changed its document
    caught,         \* runPlaybookAction: message of the error its catch block received
    rethrown,       \* runPlaybookAction: what its catch block threw
    currentState,   \* testRunner: the in-memory TestState
    sequence,       \* testRunner: position of runTestsSequence
    procs,          \* testRunner: spawned child processes that have not closed
    clock,          \* testRunner: Date.now()
    calls,          \* testRunner: number of calls of startTest
    lastStart       \* testRunner: how the last call of startTest ended

scriptVars == <<TC_COUNT, pc, allTestCases, allTitles, signatureSet, retries, requests,
                lastAttempt, prompt, rejected,
                dynamicTCS, rows, pass, fail, na, fatalError, cur, stepIdx, tc,
                executed, pageUrl, pages, cookies, storage, reloaded, tabsBefore,
                report, thrown>>

domVars == <<document, contexts, mutations>>

catchVars == <<caught, rethrown>>

runnerVars == <<currentState, sequence, procs, clock, calls, lastStart>>

vars == <<scriptVars, domVars, catchVars, runnerVars>>

genVars == <<allTestCases, allTitles, signatureSet, retries, requests, lastAttempt, prompt>>

recVars == <<rows, pass, fail, na>>

pageVars == <<pageUrl, pages, cookies, storage, reloaded, tabsBefore>>

execVars == <<cur, stepIdx, tc, executed, pageVars>>

\* the state when the script starts with a target count among `targets`
InitWith(targets) ==
    /\ TC_COUNT \in targets
    /\ pc = "goto"
    /\ allTestCases = <<>>
    /\ allTitles = <<>>
    /\ signatureSet = {}
    /\ retries = 0
    /\ requests = 0
    /\ lastAttempt = "none"
    /\ prompt = Null
    /\ rejected = FALSE
    /\ dynamicTCS = <<>>
    /\ rows = <<>>
    /\ pass = 0
    /\ fail = 0
    /\ na = 0
    /\ fatalError = Null
    /\ cur = 1
    /\ stepIdx = 1
    /\ tc = [result |-> "N/A", log |-> <<>>, threw |-> "none"]
    /\ executed = <<>>
    /\ pageUrl = BlankUrl
    /\ pages = <<>>
    /\ cookies = FALSE
    /\ storage = FALSE
    /\ reloaded = FALSE
    /\ tabsBefore = 0
    /\ report = Null
    /\ thrown = [at |-> "none", msg |-> <<>>]

\* a page with an empty body that does not change
StaticPage ==
    /\ document = Body(<<>>)
    /\ contexts = <<>>
    /\ mutations = 0

\* no error has reached the catch block of runPlaybookAction
NothingCaught ==
    /\ caught = Null
    /\ rethrown = Null

\* the test runner when its module is loaded
IdleRunner ==
    /\ currentState = [status |-> "idle", runId |-> Null, targetUrl |-> <<>>, tests |-> <<>>,
                       logs |-> <<>>, startTime |-> Null, endTime |-> Null, error |-> Null]
    /\ sequence = [at |-> "none", idx |-> 0]
    /\ procs = {}
    /\ clock = 1
    /\ calls = 0
    /\ lastStart = Null

Init == InitWith(1..MaxTarget) /\ StaticPage /\ NothingCaught /\ IdleRunner

\* a target one above the number of designs the scarce service has, and a
\* target above the size of a batch
InitScarce ==
    /\ InitWith({Cardinality(ScarceDesigns) + 1, batchSize + 1})
    /\ StaticPage /\ NothingCaught /\ IdleRunner

\* a target of two cases
InitTabs == InitWith({2}) /\ StaticPage /\ NothingCaught /\ IdleRunner

\* the script after page.goto, on any page of the model
InitSummarizer ==
    /\ InitWith({1})
    /\ document \in Documents
    /\ contexts = <<>>
    /\ mutations = 0
    /\ NothingCaught
    /\ IdleRunner

\* runPlaybookAction with an error of any message of the model in its try block
InitClassifier ==
    /\ InitWith({1})
    /\ StaticPage
    /\ caught \in { Some(m) : m \in ErrorMessages }
    /\ rethrown = Null
    /\ IdleRunner

\* the server with the test runner loaded; the script is not running
InitRunner == InitWith({1}) /\ StaticPage /\ NothingCaught /\ IdleRunner

(* --------------------------- generateTestCases ------------------------ *)

RECURSIVE Digits(_)
\* String(n) for n >= 0, as a sequence of decimal digits
Digits(n) == IF n < 10 THEN <<n>> ELSE Digits(n \div 10) \o <<n % 10>>

\* s.padStart(len, fill)
padStart(s, len, fill) ==
    IF Len(s) >= len THEN s ELSE [i \in 1..(len - Len(s)) |-> fill] \o s

\* `TC-${String(n).padStart(3, '0')}`
TcId(n) == <<"TC-">> \o padStart(Digits(n), 3, 0)

InLoop == pc = "gen" /\ Len(allTestCases) < TC_COUNT /\ retries < maxRetries

\* Math.min(a, b)
Min(a, b) == IF a < b THEN a ELSE b

\* the number of cases asked for without the cap of batchSize
currentBatchCount_Uncapped == TC_COUNT - Len(allTestCases)

\* Math.min(batchSize, needed)
currentBatchCount == Min(batchSize, TC_COUNT - Len(allTestCases))

startId == Len(allTestCases) + 1

\* the parts of the prompt that depend on the loop: the number of cases
\* asked for, the first id, and the titles to stay away from
createPrompt(count, start, existingTitles) ==
    Some([ count |-> count,
           startIdStr |-> padStart(Digits(start), 3, 0),
           excludePart |-> IF Len(existingTitles) > 0 THEN Some(existingTitles) ELSE Null ])

\* page.goto and the two-second wait succeed
Navigate ==
    /\ pc = "goto"
    /\ pc' = "extract"
    /\ pageUrl' = TargetUrl
    /\ UNCHANGED <<domVars, catchVars, runnerVars, TC_COUNT, genVars, dynamicTCS, rejected,
                   recVars, fatalError, cur, stepIdx, tc, executed, pages, cookies, storage,
                   reloaded, tabsBefore, report, thrown>>

\* extractPageContext returns
ExtractContext ==
    /\ pc = "extract"
    /\ pc' = "gen"
    /\ UNCHANGED <<domVars, catchVars, runnerVars, TC_COUNT, genVars, dynamicTCS, rejected,
                   recVars, fatalError, execVars, report, thrown>>

\* the not-ok branch with `continue` but without `retries++`
GenNotOk_NoCount ==
    /\ pc = "gen" /\ Len(allTestCases) < TC_COUNT /\ retries < maxRetries
    /\ requests' = requests + 1
    /\ prompt' = createPrompt(currentBatchCount, startId, allTitles)
    /\ UNCHANGED <<domVars, catchVars, runnerVars, TC_COUNT, pc, allTestCases, allTitles,
                   signatureSet, retries, lastAttempt, dynamicTCS, rejected, rows, pass, fail,
                   na, fatalError, execVars, report, thrown>>

\* one iteration: the response status is not ok (retries++; continue)
GenNotOk ==
    /\ InLoop
    /\ retries' = retries + 1
    /\ requests' = requests + 1
    /\ prompt' = createPrompt(currentBatchCount, startId, allTitles)
    /\ lastAttempt' = "failed"
    /\ UNCHANGED <<domVars, catchVars, runnerVars, TC_COUNT, pc, allTestCases, allTitles,
                   signatureSet, dynamicTCS, rejected, recVars, fatalError, execVars, report,
                   thrown>>

\* an iteration without the try/catch: the error leaves generateTestCases
\* and reaches the outer catch block
GenThrows_Propagates ==
    /\ InLoop
    /\ requests' = requests + 1
    /\ prompt' = createPrompt(currentBatchCount, startId, allTitles)
    /\ lastAttempt' = "failed"
    /\ fatalError' = Some(<<"fetch", "failed">>)
    /\ thrown' = [at |-> "generate", msg |-> <<"fetch", "failed">>]
    /\ pc' = "report"
    /\ UNCHANGED <<domVars, catchVars, runnerVars, TC_COUNT, allTestCases, allTitles,
                   signatureSet, retries, dynamicTCS, rejected, recVars, execVars, report>>

\* one iteration: fetch rejects, response.json() rejects, data.choices is
\* absent or JSON.parse fails; the catch block logs and falls to retries++
GenThrows ==
    /\ InLoop
    /\ \E cause \in {"fetch", "json", "choices", "parse"} :
          /\ retries' = retries + 1
          /\ requests' = requests + 1
          /\ prompt' = createPrompt(currentBatchCount, startId, allTitles)
          /\ lastAttempt' = "failed"
    /\ UNCHANGED <<domVars, catchVars, runnerVars, TC_COUNT, pc, allTestCases, allTitles,
                   signatureSet, dynamicTCS, rejected, recVars, fatalError, execVars, report,
                   thrown>>

\* one iteration: the content parses to a value that is not an array
GenNotArray ==
    /\ InLoop
    /\ retries' = retries + 1
    /\ requests' = requests + 1
    /\ prompt' = createPrompt(currentBatchCount, startId, allTitles)
    /\ lastAttempt' = "failed"
    /\ UNCHANGED <<domVars, catchVars, runnerVars, TC_COUNT, pc, allTestCases, allTitles,
                   signatureSet, dynamicTCS, rejected, recVars, fatalError, execVars, report,
                   thrown>>

\* the accepted candidates with the ids the service gave them
Renumber_KeepsIds(filtered, base) == filtered

\* filtered.forEach((tc, idx) => tc.id = ...)
Renumber(filtered, base) ==
    [i \in 1..Len(filtered) |-> [filtered[i] EXCEPT !.id = TcId(base + i)]]

\* one iteration: the content parses to an array `parsed` of `responses`
GenArrayFrom(responses) ==
    /\ InLoop
    /\ \E parsed \in responses :
          \E f \in {normalizeAndFilterTCs(parsed, allTitles, signatureSet)} :
              /\ signatureSet' = f.sigs
              /\ lastAttempt' = IF f.threw THEN "failed" ELSE "filtered"
              /\ rejected' = (rejected \/ Len(f.valid) < Len(parsed))
              /\ IF ~f.threw /\ Len(f.valid) > 0
                 THEN /\ allTestCases' = allTestCases \o Renumber(f.valid, Len(allTestCases))
                      /\ allTitles' = f.titles \o [i \in 1..Len(f.valid) |-> f.valid[i].title]
                 ELSE /\ allTestCases' = allTestCases
                      /\ allTitles' = f.titles
    /\ retries' = retries + 1
    /\ requests' = requests + 1
    /\ prompt' = createPrompt(currentBatchCount, startId, allTitles)
    /\ UNCHANGED <<domVars, catchVars, runnerVars, TC_COUNT, pc, dynamicTCS, recVars,
                   fatalError, execVars, report, thrown>>

GenArray == GenArrayFrom(Batches)

GenArrayScarce == GenArrayFrom(ScarceBatches)

GenArrayTabs == GenArrayFrom(TabBatches)

\* the while condition is false: generateTestCases returns allTestCases
\* and its locals go out of scope; the script exits with code 1 when the
\* returned list is empty
GenReturn ==
    /\ pc = "gen"
    /\ ~(Len(allTestCases) < TC_COUNT /\ retries < maxRetries)
    /\ dynamicTCS' = allTestCases
    /\ allTestCases' = <<>>
    /\ allTitles' = <<>>
    /\ signatureSet' = {}
    /\ retries' = 0
    /\ requests' = 0
    /\ lastAttempt' = "none"
    /\ prompt' = Null
    /\ pc' = IF Len(allTestCases) = 0 THEN "exited" ELSE "begin"
    /\ UNCHANGED <<domVars, catchVars, runnerVars, TC_COUNT, rejected, recVars, fatalError,
                   execVars, report, thrown>>

(* ---------------------------- fatal errors ---------------------------- *)

NameNotResolvedText == <<"URL not found, check the address.", "(ERR_NAME_NOT_RESOLVED)">>

ConnectionRefusedText == <<"Server refused the connection.", "(ERR_CONNECTION_REFUSED)">>

\* the two includes() tests in the other order
FatalText_RefusedFirst(msg) ==
    IF Includes(msg, "ERR_CONNECTION_REFUSED") THEN ConnectionRefusedText
    ELSE IF Includes(msg, "ERR_NAME_NOT_RESOLVED") THEN NameNotResolvedText
    ELSE msg

\* the value the outer catch block leaves in fatalError
FatalText(msg) ==
    IF Includes(msg, "ERR_NAME_NOT_RESOLVED") THEN NameNotResolvedText
    ELSE IF Includes(msg, "ERR_CONNECTION_REFUSED") THEN ConnectionRefusedText
    ELSE msg

\* page.goto or the two-second wait throws
NavigateThrows ==
    /\ pc = "goto"
    /\ \E msg \in FatalMessages :
          /\ fatalError' = Some(FatalText(msg))
          /\ thrown' = [at |-> "goto", msg |-> msg]
    /\ pc' = "report"
    /\ UNCHANGED <<domVars, catchVars, runnerVars, TC_COUNT, genVars, dynamicTCS, rejected,
                   recVars, execVars, report>>

\* extractPageContext throws
ExtractContextThrows ==
    /\ pc = "extract"
    /\ \E msg \in FatalMessages :
          /\ fatalError' = Some(FatalText(msg))
          /\ thrown' = [at |-> "extract", msg |-> msg]
    /\ pc' = "report"
    /\ UNCHANGED <<domVars, catchVars, runnerVars, TC_COUNT, genVars, dynamicTCS, rejected,
                   recVars, execVars, report>>

(* --------------------------- execution loop --------------------------- *)

NoStepsLog == <<"No steps provided in AI design">>

NoValidationLog == <<"No validation(check) step">>

\* the case t of the for-loop
CurCase == dynamicTCS[cur]

cleanedSteps == cleanSteps(CurCase.steps)

hasAssertion == \E i \in 1..Len(cleanedSteps) : cleanedSteps[i].action = "check"

\* the result after the step loop without the hasAssertion test
AfterSteps_NoAssertionCheck == [result |-> "Pass", log |-> <<>>, threw |-> "none"]

\* result and log once every step of cleanedSteps has run
AfterSteps ==
    IF ~hasAssertion THEN [result |-> "Fail", log |-> NoValidationLog, threw |-> "none"]
    ELSE [result |-> "Pass", log |-> <<>>, threw |-> "none"]

KnownActions == {"check", "click", "type", "wait", "clickNewTab", "checkUrl"}

\* runPlaybookAction throws before touching the page
StepMustThrow(step) ==
    \/ step.action \notin KnownActions
    \/ step.action \in NeedsSelector /\ step.selector = <<>>

StepFixedMessage(step) ==
    IF step.action \notin KnownActions THEN <<"Unknown", "action:", step.action>>
    ELSE <<"Selector", "is", "required", "for", step.action>>

\* url.includes(value); an undefined value is the text "undefined"
UrlIncludes(url, value) ==
    IF value = <<>> THEN Includes(url, "undefined")
    ELSE \A i \in 1..Len(value) : Includes(url, value[i])

\* checkUrl without the scan of context.pages()
found_ActivePageOnly(value) == UrlIncludes(pageUrl, value)

\* checkUrl: the page's URL, then the URLs of context.pages()
found(value) ==
    \/ UrlIncludes(pageUrl, value)
    \/ \E i \in 1..Len(pages) : UrlIncludes(pages[i], value)

UrlMismatch(value) ==
    <<"URL", "mismatch:", "expected", "to", "include">> \o value \o <<"but", "got">> \o pageUrl

\* String.prototype.toLowerCase on one token
LowerToken(t) ==
    CASE t = "URL" -> "url"
      [] t = "Timeout" -> "timeout"
      [] t = "Selector" -> "selector"
      [] t = "Unknown" -> "unknown"
      [] t = "Target" -> "target"
      [] t = "clickNewTab" -> "clicknewtab"
      [] t = "checkUrl" -> "checkurl"
      [] t = "page.waitForLoadState:" -> "page.waitforloadstate:"
      [] OTHER -> t

toLowerCase(msg) == [i \in 1..Len(msg) |-> LowerToken(msg[i])]

\* the tokens of the messages that have a classification word inside them
WordInside == { <<"locator.click:", "locator">>, <<"expected", "expect">> }

\* msg.includes(word)
MsgIncludes(msg, word) ==
    \E i \in 1..Len(msg) : msg[i] = word \/ <<msg[i], word>> \in WordInside

\* a classification that looks for 'timeout' and 'navigation' first
failType_TimeoutFirst(message) ==
    LET msg == toLowerCase(message)
    IN  IF MsgIncludes(msg, "timeout") \/ MsgIncludes(msg, "navigation") THEN "Fail-Navigation"
        ELSE IF MsgIncludes(msg, "locator") \/ MsgIncludes(msg, "selector")
        THEN "Fail-Selector"
        ELSE IF MsgIncludes(msg, "expect") \/ MsgIncludes(msg, "visible") THEN "Fail-Assertion"
        ELSE "Fail-General"

\* the catch block of runPlaybookAction
failType(message) ==
    LET msg == toLowerCase(message)
    IN  IF MsgIncludes(msg, "locator") \/ MsgIncludes(msg, "selector") THEN "Fail-Selector"
        ELSE IF MsgIncludes(msg, "expect") \/ MsgIncludes(msg, "visible") THEN "Fail-Assertion"
        ELSE IF MsgIncludes(msg, "timeout") \/ MsgIncludes(msg, "navigation")
        THEN "Fail-Navigation"
        ELSE "Fail-General"

\* what runPlaybookAction throws
Thrown(message) == [message |-> message, failType |-> failType(message)]

\* the catch block of the case
Caught(e, where) == [result |-> "Fail", log |-> e.message, threw |-> where]

\* the call of the isolation block that throws, or "done"
IsolationOutcomes == {"clearCookies", "evaluate", "goto", "done"}

\* the isolation block; what it throws is ignored
Isolation(o) ==
    /\ cookies' = IF o = "clearCookies" THEN cookies ELSE FALSE
    /\ storage' = IF o \in {"clearCookies", "evaluate"} THEN storage
                  ELSE IF Origin(pageUrl) = Origin(TargetUrl) THEN FALSE ELSE storage
    /\ pageUrl' = IF o = "done" THEN TargetUrl ELSE pageUrl
    /\ reloaded' = (o = "done")
    /\ tabsBefore' = Len(pages)
    /\ UNCHANGED pages

\* isolation, the one-second wait and the overlay return
BeginCase ==
    /\ pc = "begin"
    /\ \E o \in IsolationOutcomes : Isolation(o)
    /\ IF CurCase.sk = "array"
       THEN IF cleanedSteps = <<>>
            THEN /\ tc' = AfterSteps
                 /\ pc' = "record"
            ELSE /\ tc' = [result |-> "N/A", log |-> <<>>, threw |-> "none"]
                 /\ pc' = "steps"
       ELSE /\ tc' = [result |-> "Fail", log |-> NoStepsLog, threw |-> "none"]
            /\ pc' = "record"
    /\ stepIdx' = 1
    /\ executed' = <<>>
    /\ UNCHANGED <<domVars, catchVars, runnerVars, TC_COUNT, genVars, dynamicTCS, rejected,
                   recVars, fatalError, cur, report, thrown>>

\* the one-second wait or showTCOverlay throws: caught by the case's catch
BeginCaseThrows ==
    /\ pc = "begin"
    /\ \E o \in IsolationOutcomes : Isolation(o)
    /\ \E msg \in OverlayMessages : tc' = Caught([message |-> msg], "overlay")
    /\ pc' = "record"
    /\ stepIdx' = 1
    /\ executed' = <<>>
    /\ UNCHANGED <<domVars, catchVars, runnerVars, TC_COUNT, genVars, dynamicTCS, rejected,
                   recVars, fatalError, cur, report, thrown>>

\* what a click does to the browser
Effect(e) ==
    /\ cookies' = (cookies \/ e.write)
    /\ storage' = (storage \/ (e.write /\ Origin(pageUrl) = Origin(TargetUrl)))
    /\ pageUrl' = IF e.nav.null THEN pageUrl ELSE e.nav.v
    /\ pages' = IF e.tab.null THEN pages ELSE Append(pages, e.tab.v)
    /\ UNCHANGED <<reloaded, tabsBefore>>

\* runPlaybookAction returns for the step at stepIdx
StepOk ==
    /\ pc = "steps"
    /\ LET step == cleanedSteps[stepIdx]
       IN  /\ ~StepMustThrow(step)
           /\ IF step.action = "click"
              THEN \E e \in ClickEffects :
                      /\ e.tab.null \/ Len(pages) < MaxTabs
                      /\ Effect(e)
              ELSE /\ step.action = "checkUrl" => found(step.value)
                   /\ UNCHANGED pageVars
    /\ stepIdx' = stepIdx + 1
    /\ IF stepIdx = Len(cleanedSteps)
       THEN /\ tc' = AfterSteps
            /\ pc' = "record"
       ELSE UNCHANGED <<tc, pc>>
    /\ executed' = Append(executed, cleanedSteps[stepIdx])
    /\ UNCHANGED <<domVars, catchVars, runnerVars, TC_COUNT, genVars, dynamicTCS, rejected,
                   recVars, fatalError, cur, report, thrown>>

\* the step loop without the case's try/catch: the error of a step reaches
\* the outer catch block
StepThrows_Aborts ==
    /\ pc = "steps"
    /\ \E msg \in StepMessages :
          /\ tc' = Caught(Thrown(msg), "step")
          /\ fatalError' = Some(FatalText(msg))
          /\ thrown' = [at |-> "step", msg |-> msg]
    /\ pc' = "report"
    /\ executed' = Append(executed, cleanedSteps[stepIdx])
    /\ UNCHANGED <<domVars, catchVars, runnerVars, TC_COUNT, genVars, dynamicTCS, rejected,
                   recVars, cur, stepIdx, pageVars, report>>

\* a step loop that catches the error of a step and goes on with the next step
StepThrows_Continues ==
    /\ pc = "steps"
    /\ \E msg \in StepMessages : tc' = Caught(Thrown(msg), "step")
    /\ stepIdx' = stepIdx + 1
    /\ pc' = IF stepIdx = Len(cleanedSteps) THEN "record" ELSE "steps"
    /\ executed' = Append(executed, cleanedSteps[stepIdx])
    /\ UNCHANGED <<domVars, catchVars, runnerVars, TC_COUNT, genVars, dynamicTCS, rejected,
                   recVars, fatalError, cur, pageVars, report, thrown>>

\* runPlaybookAction throws { message, failType }: tc.result = 'Fail',
\* tc.log = e.message
StepThrows ==
    /\ pc = "steps"
    /\ LET step == cleanedSteps[stepIdx]
       IN  \/ /\ StepMustThrow(step)
              /\ tc' = Caught(Thrown(StepFixedMessage(step)), "step")
              /\ UNCHANGED pageVars
           \/ /\ ~StepMustThrow(step) /\ step.action = "checkUrl"
              /\ ~found(step.value)
              /\ tc' = Caught(Thrown(UrlMismatch(step.value)), "step")
              /\ UNCHANGED pageVars
           \/ /\ ~StepMustThrow(step) /\ step.action # "checkUrl"
              /\ \E msg \in (IF step.action = "wait" THEN WaitMessages ELSE StepMessages) :
                    tc' = Caught(Thrown(msg), "step")
              /\ UNCHANGED pageVars
           \/ /\ ~StepMustThrow(step) /\ step.action = "clickNewTab"
              /\ Len(pages) < MaxTabs
              /\ \E msg \in LoadMessages : tc' = Caught(Thrown(msg), "step")
              /\ \E u \in TabUrls : pages' = Append(pages, u)
              /\ UNCHANGED <<pageUrl, cookies, storage, reloaded, tabsBefore>>
    /\ pc' = "record"
    /\ executed' = Append(executed, cleanedSteps[stepIdx])
    /\ UNCHANGED <<domVars, catchVars, runnerVars, TC_COUNT, genVars, dynamicTCS, rejected,
                   recVars, fatalError, cur, stepIdx, report, thrown>>

FailResults == {"Fail", "Fail-Selector", "Fail-Assertion", "Fail-Navigation", "Fail-General"}

\* the row pushed for the case
Row == [id |-> CurCase.id, title |-> CurCase.title, result |-> tc.result, log |-> tc.log]

\* record without the else-if branch: a failed row is counted nowhere
record_NoFailCount(row) ==
    /\ rows' = Append(rows, row)
    /\ IF row.result = "Pass"
       THEN /\ pass' = pass + 1
            /\ UNCHANGED <<fail, na>>
       ELSE UNCHANGED <<pass, fail, na>>

\* record(tc): rows.push and exactly one counter
record(row) ==
    /\ rows' = Append(rows, row)
    /\ IF row.result = "Pass"
       THEN /\ pass' = pass + 1
            /\ UNCHANGED <<fail, na>>
       ELSE IF row.result \in FailResults
       THEN /\ fail' = fail + 1
            /\ UNCHANGED <<pass, na>>
       ELSE /\ na' = na + 1
            /\ UNCHANGED <<pass, fail>>

\* a loop that skips the case after the one it recorded
RecordCase_SkipsNext ==
    /\ pc = "record"
    /\ record(Row)
    /\ cur' = cur + 2
    /\ pc' = IF cur + 1 >= Len(dynamicTCS) THEN "report" ELSE "begin"
    /\ UNCHANGED <<domVars, catchVars, runnerVars, TC_COUNT, genVars, dynamicTCS, rejected,
                   fatalError, stepIdx, tc, executed, pageVars, report, thrown>>

\* record(tc) and the half-second wait; then the next case or the report
RecordCase ==
    /\ pc = "record"
    /\ record(Row)
    /\ cur' = cur + 1
    /\ pc' = IF cur = Len(dynamicTCS) THEN "report" ELSE "begin"
    /\ UNCHANGED <<domVars, catchVars, runnerVars, TC_COUNT, genVars, dynamicTCS, rejected,
                   fatalError, stepIdx, tc, executed, pageVars, report, thrown>>

\* record(tc), then the half-second wait throws: the outer catch block
RecordCaseThrows ==
    /\ pc = "record"
    /\ record(Row)
    /\ \E msg \in PageMessages :
          /\ fatalError' = Some(FatalText(msg))
          /\ thrown' = [at |-> "pause", msg |-> msg]
    /\ pc' = "report"
    /\ UNCHANGED <<domVars, catchVars, runnerVars, TC_COUNT, genVars, dynamicTCS, rejected, cur,
                   stepIdx, tc, executed, pageVars, report>>

(* ------------------------------- report ------------------------------- *)

\* Math.round((num / den) * 100)
RoundPercent(num, den) == (200 * num + den) \div (2 * den)

Summary ==
    [ total |-> Len(rows),
      passed |-> pass,
      failed |-> fail,
      blocked |-> 0,
      na |-> na,
      successRate |-> IF Len(rows) > 0 THEN RoundPercent(pass, Len(rows)) ELSE 0,
      warning |-> IF Len(rows) < TC_COUNT THEN Some(<<TC_COUNT, Len(rows)>>) ELSE Null ]

\* the report without the error field's value
ReportBody_NoError ==
    [ error |-> Null,
      testCases |-> [i \in 1..Len(rows) |->
                        [id |-> rows[i].id, title |-> rows[i].title,
                         result |-> rows[i].result, details |-> rows[i].log]],
      summary |-> Summary ]

ReportBody ==
    [ error |-> fatalError,
      testCases |-> [i \in 1..Len(rows) |->
                        [id |-> rows[i].id, title |-> rows[i].title,
                         result |-> rows[i].result, details |-> rows[i].log]],
      summary |-> Summary ]

\* fs.writeFileSync(reportPath, JSON.stringify({...})), then the page, the
\* context and the browser are closed
WriteReport ==
    /\ pc = "report"
    /\ report' = Some(ReportBody)
    /\ pc' = "done"
    /\ pageUrl' = BlankUrl
    /\ pages' = <<>>
    /\ cookies' = FALSE
    /\ storage' = FALSE
    /\ reloaded' = FALSE
    /\ tabsBefore' = 0
    /\ UNCHANGED <<domVars, catchVars, runnerVars, TC_COUNT, genVars, dynamicTCS, rejected,
                   recVars, fatalError, cur, stepIdx, tc, executed, thrown>>

(* ---------------------------- specification --------------------------- *)

Next ==
    \/ Navigate
    \/ NavigateThrows
    \/ ExtractContext
    \/ ExtractContextThrows
    \/ GenNotOk
    \/ GenThrows
    \/ GenNotArray
    \/ GenArray
    \/ GenReturn
    \/ BeginCase
    \/ BeginCaseThrows
    \/ StepOk
    \/ StepThrows
    \/ RecordCase
    \/ RecordCaseThrows
    \/ WriteReport

Spec == Init /\ [][Next]_vars

\* the same script against the scarce generation service
NextScarce ==
    \/ Navigate
    \/ NavigateThrows
    \/ ExtractContext
    \/ ExtractContextThrows
    \/ GenNotOk
    \/ GenThrows
    \/ GenNotArray
    \/ GenArrayScarce
    \/ GenReturn
    \/ BeginCase
    \/ BeginCaseThrows
    \/ StepOk
    \/ StepThrows
    \/ RecordCase
    \/ RecordCaseThrows
    \/ WriteReport

SpecScarce == InitScarce /\ [][NextScarce]_vars

\* the same script against the service of the link-clicking designs
NextTabs ==
    \/ Navigate
    \/ NavigateThrows
    \/ ExtractContext
    \/ ExtractContextThrows
    \/ GenNotOk
    \/ GenThrows
    \/ GenNotArray
    \/ GenArrayTabs
    \/ GenReturn
    \/ BeginCase
    \/ BeginCaseThrows
    \/ StepOk
    \/ StepThrows
    \/ RecordCase
    \/ RecordCaseThrows
    \/ WriteReport

SpecTabs == InitTabs /\ [][NextTabs]_vars

\* one call of extractPageContext(page)
Summarize ==
    /\ Len(contexts) < MaxCalls
    /\ contexts' = Append(contexts, extractPageContext(document))
    /\ document' = AfterExtract(document)
    /\ UNCHANGED <<scriptVars, mutations, catchVars, runnerVars>>

\* the page replaces its document between two calls
PageMutates ==
    /\ mutations < MaxMutations
    /\ document' \in Documents \ {document}
    /\ contexts' = <<>>
    /\ mutations' = mutations + 1
    /\ UNCHANGED <<scriptVars, catchVars, runnerVars>>

NextSummarizer ==
    \/ Summarize
    \/ PageMutates

\* extractPageContext called repeatedly on a page
SpecSummarizer == InitSummarizer /\ [][NextSummarizer]_vars

\* the catch block of runPlaybookAction: classify the error and throw it on
Classify ==
    /\ caught # Null
    /\ rethrown = Null
    /\ rethrown' = Some(Thrown(caught.v))
    /\ UNCHANGED <<scriptVars, domVars, caught, runnerVars>>

\* the next step's action throws
ThrowsAgain ==
    /\ rethrown # Null
    /\ caught' \in { Some(m) : m \in ErrorMessages } \ {caught}
    /\ rethrown' = Null
    /\ UNCHANGED <<scriptVars, domVars, runnerVars>>

NextClassifier ==
    \/ Classify
    \/ ThrowsAgain

\* the catch block of runPlaybookAction on errors of any message
SpecClassifier == InitClassifier /\ [][NextClassifier]_vars

(* ----------------------------- test runner ---------------------------- *)

TestTypes == {"performance", "responsive", "ux", "tc"}

\* the arguments of a call of startTest
RunnerUrls == {TargetUrl, OtherUrl}

Selections == SeqsUpTo(TestTypes, MaxTests)

\* the exit codes of a spawned script
ExitCodes == {0, 1}

LogStarting(testType) == <<"Starting", testType, "test...">>

LogCompleted(testType) == <<testType, "test", "completed.">>

LogError(testType, message) == <<"Error", "in", testType, ":">> \o message

LogMockUx == <<"Generated", "mock", "UX", "review.">>

LogFinished == <<"All", "tests", "finished.">>

\* message of the error runScript rejects with
ExitMessage(command, code) == <<command, "exited", "with", "code", code>>

\* message of the error fs.mkdirSync or fs.writeFileSync throws
FsMessage == <<"EACCES:", "permission", "denied">>

\* message of the error process.cwd() throws
CwdMessage == <<"ENOENT:", "process.cwd", "failed">>

AlreadyRunning == <<"Test", "is", "already", "running">>

\* the command runScript is called with for a test type
Command(testType) == IF testType = "performance" THEN "npx" ELSE "node"

\* log(message): currentState.logs.push(message)
log(state, message) == [state EXCEPT !.logs = Append(@, message)]

\* an end of runTestsSequence that does not set endTime
Finish_NoEndTime(state, now) ==
    log([state EXCEPT !.status = "completed"], LogFinished)

\* the end of runTestsSequence
Finish(state, now) ==
    log([state EXCEPT !.status = "completed", !.endTime = Some(now)], LogFinished)

RECURSIVE RunFrom(_, _, _, _)
\* the for-loop of runTestsSequence from the test at index i up to its next
\* await or its end: the state it leaves, where it stands, and the child
\* process it spawned
RunFrom(state, i, fsOk, now) ==
    IF i > Len(state.tests) \/ state.status = "failed"
    THEN [state |-> Finish(state, now), sequence |-> [at |-> "returned", idx |-> i],
          spawned |-> {}]
    ELSE LET testType == state.tests[i]
             started == log(state, LogStarting(testType))
         IN  IF testType \in {"responsive", "tc"} \/ (testType = "performance" /\ fsOk)
             THEN [state |-> started, sequence |-> [at |-> "await", idx |-> i],
                   spawned |-> {[idx |-> i, command |-> Command(testType)]}]
             ELSE IF testType = "ux" /\ fsOk
             THEN RunFrom(log(log(started, LogMockUx), LogCompleted(testType)),
                          i + 1, fsOk, now)
             ELSE RunFrom(log(started, LogError(testType, FsMessage)), i + 1, fsOk, now)

\* a startTest without the check of the status: it replaces the state of the
\* active run
StartTestThrows_Restarts ==
    /\ calls < MaxStarts
    /\ currentState.status = "running"
    /\ \E targetUrl \in RunnerUrls, tests \in Selections :
          currentState' = [status |-> "running", runId |-> Some(clock),
                           targetUrl |-> targetUrl, tests |-> tests, logs |-> <<>>,
                           startTime |-> Some(clock), endTime |-> Null, error |-> Null]
    /\ calls' = calls + 1
    /\ lastStart' = Some([threw |-> FALSE, message |-> <<>>, runId |-> Some(clock)])
    /\ clock' = clock + 1
    /\ UNCHANGED <<sequence, procs>>
    /\ UNCHANGED <<scriptVars, domVars, catchVars>>

\* startTest called while a run is active: throws
StartTestThrows ==
    /\ calls < MaxStarts
    /\ currentState.status = "running"
    /\ calls' = calls + 1
    /\ lastStart' = Some([threw |-> TRUE, message |-> AlreadyRunning, runId |-> Null])
    /\ UNCHANGED <<currentState, sequence, procs, clock>>
    /\ UNCHANGED <<scriptVars, domVars, catchVars>>

\* startTest(targetUrl, tests): the new state, and runTestsSequence up to
\* its first await
StartTest ==
    /\ calls < MaxStarts
    /\ currentState.status # "running"
    /\ \E targetUrl \in RunnerUrls, tests \in Selections, cwdOk, fsOk \in BOOLEAN :
          LET fresh == [status |-> "running", runId |-> Some(clock), targetUrl |-> targetUrl,
                        tests |-> tests, logs |-> <<>>, startTime |-> Some(clock),
                        endTime |-> Null, error |-> Null]
          IN  IF cwdOk
              THEN \E r \in {RunFrom(fresh, 1, fsOk, clock)} :
                      /\ currentState' = r.state
                      /\ sequence' = r.sequence
                      /\ procs' = procs \cup r.spawned
              ELSE /\ currentState' = fresh
                   /\ sequence' = [at |-> "rejected", idx |-> 0]
                   /\ UNCHANGED procs
    /\ calls' = calls + 1
    /\ lastStart' = Some([threw |-> FALSE, message |-> <<>>, runId |-> Some(clock)])
    /\ clock' = clock + 1
    /\ UNCHANGED <<scriptVars, domVars, catchVars>>

\* the catch handler startTest attached to runTestsSequence
CatchSequence ==
    /\ sequence.at = "rejected"
    /\ currentState' = [currentState EXCEPT !.status = "failed", !.error = Some(CwdMessage),
                                            !.endTime = Some(clock)]
    /\ sequence' = [at |-> "returned", idx |-> 0]
    /\ clock' = clock + 1
    /\ UNCHANGED <<procs, calls, lastStart>>
    /\ UNCHANGED <<scriptVars, domVars, catchVars>>

\* a sequence that a script's non-zero exit code ends
ScriptCloses_StopsOnError ==
    /\ sequence.at = "await"
    /\ \E p \in procs, code \in ExitCodes \ {0} :
          /\ p.idx = sequence.idx
          /\ currentState' =
                [log(currentState, LogError(currentState.tests[p.idx],
                                            ExitMessage(p.command, code)))
                    EXCEPT !.status = "failed", !.endTime = Some(clock),
                           !.error = Some(ExitMessage(p.command, code))]
          /\ sequence' = [at |-> "returned", idx |-> p.idx]
          /\ procs' = procs \ {p}
    /\ clock' = clock + 1
    /\ UNCHANGED <<calls, lastStart>>
    /\ UNCHANGED <<scriptVars, domVars, catchVars>>

\* the awaited child process closes: runScript settles and the loop goes on
\* to its next await or its end
ScriptCloses ==
    /\ sequence.at = "await"
    /\ \E p \in procs, code \in ExitCodes, fsOk \in BOOLEAN :
          /\ p.idx = sequence.idx
          /\ LET testType == currentState.tests[p.idx]
                 settled == IF code = 0
                            THEN log(currentState, LogCompleted(testType))
                            ELSE log(currentState,
                                     LogError(testType, ExitMessage(p.command, code)))
             IN  \E r \in {RunFrom(settled, p.idx + 1, fsOk, clock)} :
                    /\ currentState' = r.state
                    /\ sequence' = r.sequence
                    /\ procs' = (procs \ {p}) \cup r.spawned
    /\ clock' = clock + 1
    /\ UNCHANGED <<calls, lastStart>>
    /\ UNCHANGED <<scriptVars, domVars, catchVars>>

NextRunner ==
    \/ StartTest
    \/ StartTestThrows
    \/ CatchSequence
    \/ ScriptCloses

\* the server's test runner under calls of startTest
SpecRunner == InitRunner /\ [][NextRunner]_vars

\* the same, where every spawned script exits and every continuation runs
SpecRunnerFair ==
    SpecRunner /\ WF_vars(ScriptCloses) /\ WF_vars(CatchSequence)

(* ------------------------------ properties ---------------------------- *)

\* the lower-cased message contains the word
Contains(message, word) == MsgIncludes(toLowerCase(message), word)

\* the accepted list: the loop's while it runs, the returned one afterwards
Accepted == IF pc = "gen" THEN allTestCases ELSE dynamicTCS

HasAction(c, a) == \E k \in 1..Len(c.steps) : c.steps[k].action = a

\* C1: the list the Refill Loop builds and returns never holds more cases
\* than the target count TC_COUNT.
C1_NeverMoreThanTarget ==
    /\ Len(allTestCases) <= TC_COUNT
    /\ Len(dynamicTCS) <= TC_COUNT

\* C2: while the Refill Loop runs, the number of requests equals the budget
\* used and is at most maxRetries; every step of the loop is either one
\* iteration, taken only while the accepted count is below the target and
\* budget is left, issuing one request and using one unit of budget, or the
\* return, taken only when the target is reached or the budget is used up.
C2_OneUnitPerIteration ==
    [][ pc = "gen" =>
          /\ requests = retries
          /\ requests <= maxRetries
          /\ \/ /\ Len(allTestCases) < TC_COUNT /\ retries < maxRetries
                /\ pc' = "gen"
                /\ requests' = requests + 1
                /\ prompt' = createPrompt(currentBatchCount, startId, allTitles)
                /\ retries' = retries + 1
                /\ requests' <= maxRetries
             \/ /\ Len(allTestCases) >= TC_COUNT \/ retries >= maxRetries
                /\ pc' # "gen"
                /\ dynamicTCS' = allTestCases ]_vars

\* C2 witness: the budget is exhausted with the target not reached
C2_BudgetExhausted ==
    pc = "gen" /\ requests = maxRetries /\ Len(allTestCases) < TC_COUNT

RunEnded == pc \in {"done", "exited"}

\* C3: every run that ended has a persisted report with a summary; when no
\* case was accepted (and no fatal error occurred) that report carries a
\* warning.
C3_ReportAlwaysWritten ==
    RunEnded =>
       /\ ~report.null
       /\ (dynamicTCS = <<>> /\ thrown.at = "none") => ~report.v.summary.warning.null

\* C4: every accepted case has a steps value that is a non-empty array.
C4_AcceptedStepsNonEmpty ==
    \A i \in 1..Len(Accepted) :
       Accepted[i].sk = "array" /\ Accepted[i].steps # <<>>

\* C5: every accepted case with a click or clickNewTab step also has a
\* check step.
C5_ClickHasCheck ==
    \A i \in 1..Len(Accepted) :
       (HasAction(Accepted[i], "click") \/ HasAction(Accepted[i], "clickNewTab"))
          => HasAction(Accepted[i], "check")

\* C5 witness: a case with a click step has been accepted
C5_ClickCaseAccepted ==
    \E i \in 1..Len(Accepted) : HasAction(Accepted[i], "click")

\* C6: the signatures of any two accepted cases of a run differ.
C6_SignaturesDistinct ==
    \A i, j \in 1..Len(Accepted) :
       i < j => Signature(Accepted[i].steps) # Signature(Accepted[j].steps)

\* C6 witness: two cases accepted in different iterations
C6_TwoAcceptedAcrossIterations ==
    pc = "gen" /\ Len(allTestCases) >= 2 /\ retries >= 2

\* characters of the whitespace-stripped title (none for a missing title)
TitleChars(c) == {ch \in Range(c.title.s) : ch # " "}

\* Jaccard index of a and b above 0.6; two empty sets are equal, index 1
JaccardAboveThreshold(a, b) ==
    IF a \cup b = {} THEN TRUE
    ELSE 10 * Cardinality(a \cap b) > 6 * Cardinality(a \cup b)

\* C7 as stated: for every pair of accepted cases, whatever their titles,
\* the Jaccard index of the title character sets is at most 0.6.
C7_AllPairsBelowThreshold ==
    \A i, j \in 1..Len(Accepted) :
       i < j => ~JaccardAboveThreshold(TitleChars(Accepted[i]), TitleChars(Accepted[j]))

\* C7 amended: for every pair of accepted cases of which at least one title
\* has a non-whitespace character, the Jaccard index of the title character
\* sets is at most 0.6.
C7_TitledPairsBelowThreshold ==
    \A i, j \in 1..Len(Accepted) :
       (i < j /\ TitleChars(Accepted[i]) \cup TitleChars(Accepted[j]) # {})
          => ~JaccardAboveThreshold(TitleChars(Accepted[i]), TitleChars(Accepted[j]))

\* C7 witness: two accepted cases whose titles share characters
C7_OverlappingTitlesAccepted ==
    \E i, j \in 1..Len(Accepted) :
       i < j /\ TitleChars(Accepted[i]) \cap TitleChars(Accepted[j]) # {}

\* C8: the counters add up to the number of rows, and in the persisted
\* report total is the number of testCases and passed + failed + blocked +
\* na is total.
C8_CountersAddUp ==
    /\ pass + fail + na = Len(rows)
    /\ ~report.null =>
          /\ report.v.summary.total = Len(report.v.testCases)
          /\ report.v.summary.passed + report.v.summary.failed
                + report.v.summary.blocked + report.v.summary.na
             = report.v.summary.total

\* C8 witness: a report with a passed and a failed case
C8_MixedReport ==
    ~report.null /\ report.v.summary.passed >= 1 /\ report.v.summary.failed >= 1

\* C9: when the initial navigation or the context extraction throws, no
\* request is made, no case is generated or executed, the run goes on to
\* write the report, and the report has a non-null error, no testCases and
\* total 0.
C9_FatalBeforeGeneration ==
    thrown.at \in {"goto", "extract"} =>
       /\ requests = 0 /\ allTestCases = <<>> /\ dynamicTCS = <<>> /\ rows = <<>>
       /\ pc \in {"report", "done"}
       /\ ~fatalError.null
       /\ pc = "done" =>
             /\ ~report.null
             /\ ~report.v.error.null
             /\ report.v.testCases = <<>>
             /\ report.v.summary.total = 0

\* C9 witness: the report of a run whose context extraction threw
C9_ReportAfterExtractFailure ==
    thrown.at = "extract" /\ pc = "done" /\ ~report.null

\* the text the claim assigns to a fatal error message
ExpectedErrorText(msg) ==
    CASE "ERR_NAME_NOT_RESOLVED" \in Range(msg) -> NameNotResolvedText
      [] "ERR_NAME_NOT_RESOLVED" \notin Range(msg)
            /\ "ERR_CONNECTION_REFUSED" \in Range(msg) -> ConnectionRefusedText
      [] OTHER -> msg

\* C10: the report's error is null when no fatal error occurred, and else
\* the name-resolution text, the connection-refused text or the message
\* itself, chosen in this order by what the message contains.
C10_ErrorFieldFromMessage ==
    ~report.null =>
       report.v.error = IF thrown.at = "none" THEN Null
                        ELSE Some(ExpectedErrorText(thrown.msg))

\* C10 witness: the report of a fatal error whose message names both
\* network errors
C10_ReportOfBothErrors ==
    /\ ~report.null
    /\ thrown.at # "none"
    /\ "ERR_NAME_NOT_RESOLVED" \in Range(thrown.msg)
    /\ "ERR_CONNECTION_REFUSED" \in Range(thrown.msg)

\* C11: in every persisted report the warning is non-null exactly when the
\* total is below the target, and when the refill loop returned k accepted
\* cases with 0 < k < target the report has total = k and a non-null warning
C11_WarningAndTotal ==
    ~report.null =>
        LET summary == report.v.summary
            k == Len(dynamicTCS)
        IN  /\ ~summary.warning.null <=> summary.total < TC_COUNT
            /\ (0 < k /\ k < TC_COUNT) => (summary.total = k /\ ~summary.warning.null)


C13_RecordedSubType ==
    (pc = "record" /\ tc.threw = "step") =>
        /\ tc.result \in {"Fail-Selector", "Fail-Assertion", "Fail-Navigation", "Fail-General"}
        /\ tc.result = failType(tc.log)


\* a candidate the Validator drops whatever was accepted before it: no steps
\* array, a lone check, a click or clickNewTab without a check, a step that
\* needs a selector and has none, a selector with :contains or :has-text
AlwaysRejected(c) ==
    \/ c.nul
    \/ c.sk # "array"
    \/ Len(c.steps) = 1 /\ c.steps[1].action = "check"
    \/ (HasAction(c, "click") \/ HasAction(c, "clickNewTab")) /\ ~HasAction(c, "check")
    \/ \E k \in 1..Len(c.steps) :
          /\ c.steps[k].action \in {"click", "type", "check", "clickNewTab"}
          /\ c.steps[k].selector = <<>>
    \/ \E k \in 1..Len(c.steps) :
          Includes(c.steps[k].selector, ":contains") \/ Includes(c.steps[k].selector, ":has-text")

\* C14: the cases handed to the executor are the accepted ones: the case of
\* the loop is an entry of the returned list, none of its entries is a
\* candidate the Validator rejects (such as a lone click without a check),
\* and every row is the row of the accepted case at its position
C14_ExecutedAreAccepted ==
    /\ \A i \in 1..Len(Accepted) : ~AlwaysRejected(Accepted[i])
    /\ pc \in {"begin", "steps", "record"} => cur \in 1..Len(dynamicTCS)
    /\ pc = "steps" => stepIdx \in 1..Len(cleanSteps(dynamicTCS[cur].steps))
    /\ Len(rows) <= Len(dynamicTCS)
    /\ \A i \in 1..Len(rows) :
          rows[i].id = dynamicTCS[i].id /\ rows[i].title = dynamicTCS[i].title

\* the Validator dropped a candidate and every accepted case has been run
C14_RejectedAndExecuted ==
    /\ rejected
    /\ pc = "done" /\ rows # <<>> /\ Len(rows) = Len(dynamicTCS)


\* C15: a case's result is Pass exactly when every step of its cleaned list
\* returned without throwing and the cleaned list has a check; when every
\* step returned and there is no check the result is Fail with the log
\* 'No validation(check) step'
C15_PassIffStepsAndCheck ==
    pc = "record" =>
        LET steps == cleanSteps(CurCase.steps)
            allReturned == /\ CurCase.sk = "array"
                           /\ tc.threw = "none"
                           /\ stepIdx = Len(steps) + 1
            hasCheck == \E k \in 1..Len(steps) : steps[k].action = "check"
        IN  /\ tc.result = "Pass" <=> (allReturned /\ hasCheck)
            /\ (allReturned /\ ~hasCheck) =>
                  (tc.result = "Fail" /\ tc.log = <<"No validation(check) step">>)

\* a case whose only step returned ends without validation after an earlier
\* case passed
C15_PassThenNoValidation ==
    /\ pc = "record"
    /\ tc.threw = "none" /\ stepIdx = 2 /\ Len(cleanedSteps) = 1
    /\ tc.log = NoValidationLog
    /\ \E i \in 1..Len(rows) : rows[i].result = "Pass"


\* C16: a case whose steps are missing, not an array or an empty array, and
\* whose overlay did not fail, ends as Fail with the log 'No steps provided
\* in AI design' without running a step
C16_NoStepsLog ==
    (pc = "record" /\ tc.threw = "none" /\ (CurCase.sk # "array" \/ CurCase.steps = <<>>)) =>
        /\ tc.result = "Fail"
        /\ tc.log = <<"No steps provided in AI design">>
        /\ stepIdx = 1


\* C17: when the first step of a case is about to run, no cookie and no
\* entry of the target origin's storage written during an earlier case is
\* left, and for every case after the first the page has just been
\* navigated to the target URL by the isolation block
C17_IsolatedAtFirstStep ==
    (pc = "steps" /\ stepIdx = 1) =>
        /\ ~cookies
        /\ ~storage
        /\ cur > 1 => (reloaded /\ pageUrl = TargetUrl)


\* C18: at the start of every case and between the steps of a case the
\* browser context has exactly one open page: no tab a step opened is left
C18_OnePageAtBoundaries ==
    pc \in {"begin", "steps", "record"} => pages = <<>>


\* ids of a list of cases or rows, in order
Ids(list) == [i \in 1..Len(list) |-> list[i].id]

\* C19: in a run without a fatal error the cases run one at a time in the
\* order of the accepted list: the loop index only moves by one, when the
\* current case is recorded; the rows are the cases before the current one;
\* and the ids of the report's testCases are the ids of the accepted list
C19_OneResultPerCaseInOrder ==
    /\ [][ /\ cur' \in {cur, cur + 1}
           /\ cur' = cur + 1 => (pc = "record" /\ rows' = Append(rows, Row))
           /\ Len(rows') > Len(rows) => (pc = "record" /\ Len(rows') = cur)
         ]_vars
    /\ []((thrown.at = "none" /\ pc \in {"begin", "steps", "record"}) =>
              Ids(rows) = SubSeq(Ids(dynamicTCS), 1, cur - 1))
    /\ []((thrown.at = "none" /\ ~report.null) =>
              Ids(report.v.testCases) = Ids(dynamicTCS))

\* a report without a fatal error that lists two cases
C19_ReportOfTwoCases ==
    /\ ~report.null /\ report.v.error.null
    /\ Len(report.v.testCases) = 2
    /\ report.v.testCases[1].id # report.v.testCases[2].id


\* C20: an iteration of the refill loop that fails (fetch rejects, status
\* not ok, no choices, content that is not JSON or not an array, an
\* exception while filtering) adds no accepted case, uses one unit of the
\* budget, sets no fatal error and leaves the script inside
\* generateTestCases, which then goes on or returns its list normally
C20_FailedAttemptStaysInLoop ==
    /\ [][ /\ (pc = "gen" /\ lastAttempt' = "failed") =>
                /\ allTestCases' = allTestCases
                /\ retries' = retries + 1
                /\ pc' = "gen"
                /\ fatalError' = fatalError
                /\ thrown' = thrown
           /\ (pc = "gen" /\ pc' # "gen") =>
                /\ pc' \in {"begin", "exited"}
                /\ dynamicTCS' = allTestCases
                /\ fatalError' = fatalError
         ]_vars
    /\ [](pc = "gen" => (fatalError.null /\ thrown.at = "none"))

\* the filter threw in the middle of a batch, after it had registered a
\* title, and the loop is about to issue the next request
C20_FilterThrewMidBatch ==
    /\ pc = "gen" /\ lastAttempt = "failed"
    /\ Len(allTitles) > 2 * Len(allTestCases)
    /\ Len(allTestCases) >= 1
    /\ InLoop


C22_NoForbiddenSelector ==
    \A i \in 1..Len(Accepted) : \A k \in 1..Len(Accepted[i].steps) :
        \A bad \in {":contains", ":has-text", "//", "xpath="} :
            ~Includes(Accepted[i].steps[k].selector, bad)


\* C23: in every accepted case each click, type, check and clickNewTab step
\* has a selector, so no step that runs lacks one and no case fails with
\* the executor's 'Selector is required' error
C23_SelectorsPresent ==
    /\ \A i \in 1..Len(Accepted) : \A k \in 1..Len(Accepted[i].steps) :
          Accepted[i].steps[k].action \in {"click", "type", "check", "clickNewTab"} =>
              Accepted[i].steps[k].selector # <<>>
    /\ (pc = "record" /\ tc.threw = "step") =>
          ~(Len(tc.log) >= 3 /\ SubSeq(tc.log, 1, 3) = <<"Selector", "is", "required">>)

\* after the Validator dropped a candidate, a click of an accepted case threw
\* an error of the browser
C23_ClickStepFailedInBrowser ==
    /\ rejected
    /\ pc = "record" /\ tc.threw = "step"
    /\ cleanedSteps[stepIdx].action = "click"
    /\ cleanedSteps[stepIdx].selector # <<>>


\* C24: the ids of the accepted list are TC-001, TC-002, ... TC-n in list
\* order, three digits with leading zeros, whatever ids the candidates came
\* with
C24_SequentialIds ==
    \A i \in 1..Len(Accepted) :
        Accepted[i].id = <<"TC-", (i \div 100) % 10, (i \div 10) % 10, i % 10>>

\* two cases accepted in two different iterations: each iteration left its
\* own title pair in the accepted-title list
C24_AcceptedInTwoIterations ==
    /\ pc = "gen" /\ Len(allTestCases) = 2 /\ Len(allTitles) = 4
    /\ allTitles[1] = allTestCases[1].title /\ allTitles[2] = allTestCases[1].title
    /\ allTitles[3] = allTestCases[2].title /\ allTitles[4] = allTestCases[2].title
    /\ allTestCases[1].title # allTestCases[2].title


\* C25: each request of the refill loop follows the previous one and is
\* built from the state that one left: its prompt asks for min(30, target -
\* accepted count) cases, names accepted count + 1 as the first id and lists
\* the title of every case accepted so far as an exclusion
C25_PromptFromLoopState ==
    [][ (pc = "gen" /\ pc' = "gen" /\ requests' # requests) =>
          LET accepted == Len(allTestCases)
              needed == TC_COUNT - accepted
          IN  /\ requests' = requests + 1
              /\ ~prompt'.null
              /\ prompt'.v.count = (IF needed < 30 THEN needed ELSE 30)
              /\ prompt'.v.startIdStr = <<((accepted + 1) \div 100) % 10,
                                          ((accepted + 1) \div 10) % 10, (accepted + 1) % 10>>
              /\ accepted > 0 => ~prompt'.v.excludePart.null
              /\ \A i \in 1..accepted :
                    Includes(prompt'.v.excludePart.v, allTestCases[i].title)
      ]_vars

\* the third prompt of a run with a target of 31: 29 cases from TC-003 on,
\* after prompts for 30 cases
C25_PromptAfterTwoAccepted ==
    /\ TC_COUNT = 31 /\ pc = "gen"
    /\ ~prompt.null
    /\ prompt.v.count = 29
    /\ prompt.v.startIdStr = <<0, 0, 3>>
    /\ Len(allTestCases) = 2 /\ retries >= 3


\* C26: between the iterations of the refill loop the accepted-title list
\* has one entry per accepted case, in acceptance order
C26_OneTitlePerCase ==
    pc = "gen" =>
        /\ Len(allTitles) = Len(allTestCases)
        /\ \A i \in 1..Len(allTestCases) : allTitles[i] = allTestCases[i].title


\* C27: the accepted-title list and the signature set hold only entries of
\* cases of the accepted list: neither a rejected candidate nor a batch
\* whose filtering threw leaves a title or a signature behind
C27_OnlyAcceptedRegistered ==
    pc = "gen" =>
        /\ \A i \in 1..Len(allTitles) :
              \E j \in 1..Len(allTestCases) : allTitles[i] = allTestCases[j].title
        /\ signatureSet = {Signature(allTestCases[j].steps) : j \in 1..Len(allTestCases)}


\* the expected text occurs in the URL
UrlContains(url, value) ==
    value # <<>> /\ \A i \in 1..Len(value) : \E j \in 1..Len(url) : url[j] = value[i]

\* C28: a checkUrl step returns exactly when the URL of the page, or else
\* the URL of some page open in the context, contains the expected value;
\* otherwise the case ends as Fail with a URL mismatch error
C28_CheckUrlOutcome ==
    [][ (pc = "steps" /\ cleanedSteps[stepIdx].action = "checkUrl") =>
          LET value == cleanedSteps[stepIdx].value
              matches == \/ UrlContains(pageUrl, value)
                         \/ \E i \in 1..Len(pages) : UrlContains(pages[i], value)
          IN  IF matches
              THEN stepIdx' = stepIdx + 1 /\ tc'.threw = "none"
              ELSE /\ pc' = "record"
                   /\ tc'.threw = "step"
                   /\ tc'.result = "Fail"
                   /\ SubSeq(tc'.log, 1, 2) = <<"URL", "mismatch:">>
      ]_vars

\* a case passed on a checkUrl step that matched another open page while
\* the page itself was elsewhere
C28_MatchedInOtherTab ==
    /\ pc = "record" /\ tc.result = "Pass"
    /\ cleanedSteps[Len(cleanedSteps)].action = "checkUrl"
    /\ ~UrlContains(pageUrl, cleanedSteps[Len(cleanedSteps)].value)
    /\ \E i \in 1..Len(pages) : UrlContains(pages[i], cleanedSteps[Len(cleanedSteps)].value)

\* C29: the catch block of runPlaybookAction throws the message it received
\* with exactly one sub-type, determined by the lower-cased message alone in
\* this order of priority: 'locator' or 'selector' gives Fail-Selector; else
\* 'expect' or 'visible' gives Fail-Assertion; else 'timeout' or 'navigation'
\* gives Fail-Navigation; else Fail-General.
C29_ClassifiedByPriority ==
    rethrown # Null =>
        LET m == caught.v
            t == rethrown.v.failType
            sel == Contains(m, "locator") \/ Contains(m, "selector")
            ass == Contains(m, "expect") \/ Contains(m, "visible")
            nav == Contains(m, "timeout") \/ Contains(m, "navigation")
        IN  /\ rethrown.v.message = m
            /\ t \in {"Fail-Selector", "Fail-Assertion", "Fail-Navigation", "Fail-General"}
            /\ (t = "Fail-Selector") <=> sel
            /\ (t = "Fail-Assertion") <=> (~sel /\ ass)
            /\ (t = "Fail-Navigation") <=> (~sel /\ ~ass /\ nav)
            /\ (t = "Fail-General") <=> (~sel /\ ~ass /\ ~nav)

\* a timeout message that mentions the locator was classified Fail-Selector
C29_TimeoutMentionsLocator ==
    /\ rethrown # Null
    /\ caught.v = <<"locator.click:", "Timeout", "5000ms", "exceeded">>
    /\ rethrown.v.failType = "Fail-Selector"

\* the list of steps without its first step when that step is a wait
WithoutFirstWait(steps) ==
    IF steps # <<>> /\ steps[1].action = "wait" THEN Tail(steps) ELSE steps

\* C30: the steps executed for a case are, in order, the case's steps with a
\* wait removed only when it is the very first step: while the case runs the
\* steps handed to runPlaybookAction are a prefix of that list, all of it once
\* every step returned, and the check looked for is looked for in that list.
C30_CleanedStepsRun ==
    (pc \in {"steps", "record"} /\ CurCase.sk = "array") =>
        LET expected == WithoutFirstWait(CurCase.steps)
        IN  /\ Len(executed) <= Len(expected)
            /\ executed = SubSeq(expected, 1, Len(executed))
            /\ pc = "steps" => Len(executed) = stepIdx - 1
            /\ (pc = "record" /\ tc.threw = "step") => Len(executed) = stepIdx
            /\ (pc = "record" /\ tc.threw = "none") =>
                  /\ executed = expected
                  /\ (tc.result = "Pass") <=>
                        \E k \in 1..Len(expected) : expected[k].action = "check"

\* a case that starts with a wait and has a later wait ran to its end: the
\* first wait was not executed, the later one was
C30_LaterWaitExecuted ==
    /\ pc = "record" /\ tc.threw = "none"
    /\ CurCase.steps # <<>>
    /\ CurCase.steps[1].action = "wait"
    /\ Len(executed) = Len(CurCase.steps) - 1
    /\ executed[1].action # "wait"
    /\ \E k \in 2..Len(executed) : executed[k].action = "wait"

C32_NoMatchOnEarlierTab ==
    [][ (pc = "steps" /\ cleanedSteps[stepIdx].action = "checkUrl"
           /\ stepIdx' = stepIdx + 1) =>
          LET value == cleanedSteps[stepIdx].value
          IN  \/ UrlContains(pageUrl, value)
              \/ \E i \in (tabsBefore + 1)..Len(pages) : UrlContains(pages[i], value)
      ]_vars

\* C33: in every written report a non-null error field comes with an empty
\* testCases list: a fatal error is never recorded together with executed
\* cases.
C33_ErrorMeansNoCases ==
    (~report.null /\ ~report.v.error.null) => report.v.testCases = <<>>

\* a runTestsSequence has started and has not returned or been caught
SequenceActive == sequence.at \in {"await", "rejected"}

\* C34: in the test runner at most one test sequence is active at any time:
\* a call of startTest while the status is 'running' throws 'Test is already
\* running' and leaves the run state (runId, targetUrl, tests, logs,
\* startTime), the active sequence and its child process as they are; a call
\* starts a run only when the status is not 'running', which is only when
\* no sequence is active and no child process is left, the previous run
\* having ended 'completed' or 'failed'.
C34_OneSequenceAtATime ==
    /\ [][ calls' # calls =>
             IF currentState.status = "running"
             THEN /\ lastStart'.v.threw
                  /\ lastStart'.v.message = AlreadyRunning
                  /\ UNCHANGED <<currentState, sequence, procs>>
             ELSE /\ ~lastStart'.v.threw
                  /\ ~SequenceActive /\ procs = {}
                  /\ calls > 0 => currentState.status \in {"completed", "failed"}
                  /\ currentState'.runId = lastStart'.v.runId
         ]_vars
    /\ []((SequenceActive \/ procs # {}) => currentState.status = "running")
    /\ [](Cardinality(procs) <= 1)

\* a call of startTest was refused while a script of the active run was
\* running, after that run had logged
C34_RefusedWhileRunning ==
    /\ lastStart # Null /\ lastStart.v.threw
    /\ currentState.status = "running"
    /\ procs # {}
    /\ Len(currentState.logs) > 1

\* the log line says that the test of this type was started
IsStart(line) == line[1] = "Starting"

\* the log line says that the test of this type ended, well or with an error
IsEnd(line, testType) ==
    \/ line = <<testType, "test", "completed.">>
    \/ Len(line) > 4 /\ SubSeq(line, 1, 4) = <<"Error", "in", testType, ":">>

\* the log line says that the script of the test exited with a non-zero code
IsExitError(line, testType) ==
    /\ Len(line) = 9
    /\ SubSeq(line, 1, 4) = <<"Error", "in", testType, ":">>
    /\ SubSeq(line, 6, 8) = <<"exited", "with", "code">>
    /\ line[9] # 0

\* C35: in the test runner the selected tests run one after another in the
\* order given: the tests started so far are the first tests of the list,
\* every started test but the one being awaited has ended before the next
\* one started, at most one script is alive and it is the script of the
\* last test started; when a script closes, whatever its exit code, its
\* end is logged (a non-zero code as an error) and the next test of the
\* list starts, or the run completes after the last one; a completed run
\* has started every test of the list.
C35_OneAfterAnotherInOrder ==
    /\ [] LET logs == currentState.logs
              tests == currentState.tests
              starts == SelectSeq(logs, IsStart)
          IN  /\ Len(starts) <= Len(tests)
              /\ \A j \in 1..Len(starts) : starts[j] = <<"Starting", tests[j], "test...">>
              /\ \A k \in 1..Len(logs) :
                    IsStart(logs[k]) =>
                        \/ k = Len(logs) /\ procs # {}
                        \/ k < Len(logs) /\ IsEnd(logs[k + 1], logs[k][2])
                        \/ /\ k + 1 < Len(logs)
                           /\ logs[k][2] = "ux"
                           /\ ~IsStart(logs[k + 1])
                           /\ IsEnd(logs[k + 2], "ux")
              /\ Cardinality(procs) <= 1
              /\ \A p \in procs : p.idx = Len(starts) /\ IsStart(logs[Len(logs)])
              /\ currentState.status = "completed" => Len(starts) = Len(tests)
    /\ [][ \A p \in procs :
               p \notin procs' =>
                  LET logs == currentState'.logs
                      tests == currentState.tests
                      k == Len(currentState.logs) + 1
                  IN  /\ IsEnd(logs[k], tests[p.idx])
                      /\ IF p.idx < Len(tests)
                         THEN logs[k + 1] = <<"Starting", tests[p.idx + 1], "test...">>
                         ELSE currentState'.status = "completed"
         ]_vars

\* a completed run of two tests in which the script of the first exited with
\* a non-zero code and the second test ended well
C35_SecondRanAfterFailure ==
    /\ currentState.status = "completed"
    /\ Len(currentState.tests) = 2
    /\ \E k \in 1..Len(currentState.logs) :
          /\ IsExitError(currentState.logs[k], currentState.tests[1])
          /\ \E m \in (k + 1)..Len(currentState.logs) :
                currentState.logs[m] = <<currentState.tests[2], "test", "completed.">>

\* the run has ended: status 'completed' or 'failed' with an endTime
RunEnded_WithEndTime ==
    /\ currentState.status \in {"completed", "failed"}
    /\ currentState.endTime # Null

\* C36: in the test runner, when every spawned script eventually exits,
\* every started run eventually leaves status 'running' and ends
\* 'completed' or 'failed' with a non-null endTime; endTime is null whenever
\* the status is 'running'.
C36_EveryRunEnds ==
    /\ (currentState.status = "running") ~> RunEnded_WithEndTime
    /\ [](currentState.status = "running" => currentState.endTime = Null)
    /\ [](currentState.status \in {"completed", "failed"} => currentState.endTime # Null)

\* a run that awaited two scripts has ended 'completed' with an endTime
C36_CompletedAfterTwoScripts ==
    /\ currentState.status = "completed"
    /\ currentState.endTime # Null
    /\ currentState.endTime.v > currentState.startTime.v + 1
    /\ Len(currentState.tests) = 2
    /\ \A j \in 1..2 : currentState.tests[j] \in {"responsive", "tc"}

====
